---- MODULE Spec2Model ----
(***************************************************************************)
(* Model of the animation utilities of StartUpLandingPage:                 *)
(*   src/scripts/utils.js       debounce, throttle, animate                *)
(*   src/scripts/animations.js  AnimationManager (IntersectionObserver)    *)
(*                                                                         *)
(* Time is the host clock in milliseconds.  Host timers (setTimeout) fire  *)
(* at their due time: the clock never advances past a pending timer.       *)
(* Every component has a specification of its own (SpecThrottle,           *)
(* SpecDebounce, SpecManager, SpecAnimate); the variables of the other     *)
(* components stay at their initial values.                                *)
(***************************************************************************)
EXTENDS Integers, Sequences, FiniteSets, TLC

VARIABLES
    now,            \* host clock, ms
    \* ---- throttle(func, limit): closure state and observations
    thLimit,        \* the limit argument
    inThrottle,     \* closure variable inThrottle (a JS value)
    thTimers,       \* due times of the pending setTimeout callbacks
    thExecTimes,    \* times at which func ran
    thCalls,        \* number of calls of the wrapper so far
    thRegular,      \* the k-th call so far was made at time 10*(k-1)
    thLastCall,     \* what the latest call of the wrapper did
    \* ---- debounce(func, wait, immediate): closure state and observations
    dbWait,         \* the wait argument
    dbImmediate,    \* the immediate argument
    dbTimeout,      \* closure variable timeout (a JS value)
    dbTimers,       \* pending setTimeout callbacks: [id, due, arg]
    dbCalls,        \* number of calls of the wrapper so far
    dbSince,        \* calls of the wrapper since func last ran
    dbScen,         \* calls so far that follow ScenarioCalls, -1 once they differ
    dbLastCall,     \* what the latest call of the wrapper did
    dbExecCount,    \* number of times func ran
    dbLastExec,     \* the latest run of func
    \* ---- AnimationManager: fields and observations
    observer,           \* this.observer: "null" or "IntersectionObserver"
    animatedElements,   \* this.animatedElements
    mgrObserved,        \* the elements the IntersectionObserver watches
    mgrInvoked,         \* element -> number of calls this.animatedElement(element)
    mgrRepeats,         \* calls made for an element already in animatedElements
    mgrReports,         \* element -> callback turns that reported it intersecting
    cbTurns,            \* number of observer callback turns so far
    cbEntries,          \* the entries of the latest callback turn
    cbPrev,             \* animatedElements and mgrInvoked before that turn
    \* ---- one call animate(element, properties, duration)
    anPc,           \* "idle" (not called), "running", "done" (resolved), "rejected"
    anElement,      \* "el" or "null"
    anReduced,      \* what prefersReducedMotion() returned to the call
    anProps,        \* properties: property name -> target
    anDuration,     \* duration, ms
    anStartValues,  \* startValues: property name -> number
    anStartTime,    \* closure variable startTime (a JS value)
    anStyle,        \* what the call has assigned to element.style
    anPending,      \* frame callbacks of the call that are requested and not yet run
    anScheduled,    \* requestAnimationFrame calls made by the call
    anResolved,     \* resolve() calls made by the call
    anSteps,        \* animationStep runs so far
    anProgress,     \* progress computed by the latest animationStep
    anPrevProgress, \* progress computed by the one before
    anClock,        \* timestamp of the latest frame
    \* ---- the host and the life of the AnimationManager
    hostReduced,        \* matchMedia('(prefers-reduced-motion: reduce)').matches, now
    hostHasIO,          \* the host provides IntersectionObserver
    mgrClass,           \* the file whose class AnimationManager is in effect
    mgrPc,              \* "none" (not constructed), "constructed", "threw"
    mgrError,           \* what new AnimationManager() threw, "" if nothing
    mgrRan,             \* the setup methods that ran to completion, in order
    initReduced,        \* what prefersReducedMotion() returned to init()
    finalApplied,       \* the completed visual state has been applied
    disposeRequested,   \* dispose() has been called on the manager
    prefAtCall,         \* the preference, at the host and as init() read it, when
                        \* animate was called
    \* ---- scrolling
    scrollIdx,          \* number of ScrollSamples delivered as scroll events
    navScrolled,        \* the scroll-driven class is applied
    scrollTransitions,  \* changes of navScrolled so far
    \* ---- smoothScrollTo's ease(t, b, c, d)
    esT, esB, esC, esD, \* the arguments: t a fraction, b, c, d integers
    esDone,             \* ease has been applied to them
    esOut,              \* what it returned
    \* ---- two animate calls on one element and one property
    ovProp,             \* the property both calls animate
    ovTask,             \* per call, 1 the earlier and 2 the later: its closure
    ovQueue,            \* the frame callbacks requested, in request order
    ovStyle,            \* element.style[ovProp]
    ovWriter,           \* the call that wrote ovStyle, 0 if none has
    ovWrote,            \* per call, the value it wrote last
    ovClock,            \* timestamp of the latest frame
    ovFrames,           \* frames run so far
    ovFrameLog,         \* the calls that stepped in the latest frame, in order
    ovDoneFrame,        \* per call, the frame in which it resolved, 0 if none
    ovBothStepped,      \* frames so far in which both calls stepped
    \* ---- smoothScrollTo(target, offset, duration)
    ssPc,               \* "idle", "absent" (returned at once), "running", "done"
    ssTargetPosition,   \* element.offsetTop - offset
    ssStartPosition,    \* window.pageYOffset at the call
    ssDuration,
    ssStarTime,         \* the closure's starTime
    ssScrollY,          \* the position of the latest window.scrollTo(0, run)
    ssScrolls,          \* window.scrollTo calls so far
    ssPending,          \* frame callbacks requested and not yet run
    ssElapsed,          \* timeElapsed of the latest frame
    ssClock,            \* timestamp of the latest frame
    \* ---- addEventListenerSafe / removeEventListnerSafe on one element and event
    lsAttached,         \* the handlers attached to the element
    lsOps,              \* calls of the two functions so far
    lsLast,             \* the latest call and what was attached before it
    lsThrew,            \* a call has thrown to its caller
    lsErrors            \* console.error calls so far

thVars == <<thLimit, inThrottle, thTimers, thExecTimes, thCalls, thRegular, thLastCall>>

dbVars == <<dbWait, dbImmediate, dbTimeout, dbTimers, dbCalls, dbSince, dbScen,
            dbLastCall, dbExecCount, dbLastExec>>

mgrVars == <<observer, animatedElements, mgrObserved, mgrInvoked, mgrRepeats,
             mgrReports, cbTurns, cbEntries, cbPrev>>

anVars == <<anPc, anElement, anReduced, anProps, anDuration, anStartValues, anStartTime,
            anStyle, anPending, anScheduled, anResolved, anSteps, anProgress,
            anPrevProgress, anClock>>

lcVars == <<hostReduced, hostHasIO, mgrClass, mgrPc, mgrError, mgrRan, initReduced,
            finalApplied, disposeRequested, prefAtCall>>

scVars == <<scrollIdx, navScrolled, scrollTransitions>>

easeVars == <<esT, esB, esC, esD, esDone, esOut>>

ovVars == <<ovProp, ovTask, ovQueue, ovStyle, ovWriter, ovWrote, ovClock, ovFrames,
            ovFrameLog, ovDoneFrame, ovBothStepped>>

ssVars == <<ssPc, ssTargetPosition, ssStartPosition, ssDuration, ssStarTime, ssScrollY,
            ssScrolls, ssPending, ssElapsed, ssClock>>

lsVars == <<lsAttached, lsOps, lsLast, lsThrew, lsErrors>>

domVars == <<ssVars, lsVars>>

utilVars == <<easeVars, ovVars, domVars>>

\* the variables the utilities above never touch
extVars == <<lcVars, scVars, utilVars>>

vars == <<now, thVars, dbVars, mgrVars, anVars, extVars>>

-----------------------------------------------------------------------------
(* Bounds of the model *)

MaxTime == 300
MaxCalls == 10
MaxDbCalls == 4
MaxTurns == 3
MaxEntries == 2
MaxFrameTime == 5
MaxFrames == 4

\* the amounts by which the clock advances between two events
Steps == {10, 50}

-----------------------------------------------------------------------------
(* JavaScript values, as far as the code distinguishes them *)

JsUndefined == [kind |-> "undefined"]
JsNull == [kind |-> "null"]
JsBool(b) == [kind |-> "boolean", val |-> b]
JsNum(n) == [kind |-> "number", val |-> n]

\* ToBoolean
Truthy(v) ==
    CASE v.kind = "boolean" -> v.val
      [] v.kind = "number" -> v.val /= 0
      [] OTHER -> FALSE

Last(s) == s[Len(s)]

-----------------------------------------------------------------------------
(* throttle(func, limit) *)

Limits == {50, 100}

\* if (!inThrottle)
ThrottleOpen(inThr) == ~Truthy(inThr)

ThrottleAfterRun_StaysOpen(inThr) == inThr

\* inThrottle = true
ThrottleAfterRun(inThr) == JsBool(TRUE)

\* the timer callback () => inThrottle - false: the difference is computed
\* and dropped, nothing is assigned
ThrottleRelease(inThr) == inThr

TimerRuns_Trailing(execTimes, t) == Append(execTimes, t)

\* the runs of func after the timer callback: it does not call func
TimerRuns(execTimes, t) == execTimes

NoThrottleCall == [t |-> -1, ran |-> FALSE, cooled |-> FALSE]

ThrottleInit ==
    /\ inThrottle = JsUndefined
    /\ thTimers = {}
    /\ thExecTimes = <<>>
    /\ thCalls = 0
    /\ thRegular = TRUE
    /\ thLastCall = NoThrottleCall

\* the cooldown of the latest execution is over: limit ms have elapsed and
\* its timer has fired
ThrottleCooled ==
    /\ thExecTimes /= <<>>
    /\ now - Last(thExecTimes) >= thLimit
    /\ thTimers = {}

\* one call of the wrapper returned by throttle
ThrottleCall ==
    /\ thCalls < MaxCalls
    /\ thCalls' = thCalls + 1
    /\ thRegular' = (thRegular /\ now = 10 * thCalls)
    /\ IF ThrottleOpen(inThrottle)
         THEN /\ thExecTimes' = Append(thExecTimes, now)
              /\ inThrottle' = ThrottleAfterRun(inThrottle)
              /\ thTimers' = thTimers \cup {now + thLimit}
         ELSE UNCHANGED <<thExecTimes, inThrottle, thTimers>>
    /\ thLastCall' = [t |-> now, ran |-> ThrottleOpen(inThrottle), cooled |-> ThrottleCooled]
    /\ UNCHANGED <<now, thLimit, dbVars, mgrVars, anVars, extVars>>

\* the setTimeout callback of throttle fires
ThrottleTimer ==
    /\ \E due \in thTimers :
         /\ due = now
         /\ thTimers' = thTimers \ {due}
    /\ inThrottle' = ThrottleRelease(inThrottle)
    /\ thExecTimes' = TimerRuns(thExecTimes, now)
    /\ UNCHANGED <<now, thLimit, thCalls, thRegular, thLastCall, dbVars, mgrVars, anVars, extVars>>

-----------------------------------------------------------------------------
(* debounce(func, wait, immediate) *)

Waits == {50, 200}
Args == {"a", "b"}

\* the calls of the example: t = 0, 50, 100
ScenarioCalls == <<0, 50, 100>>

CallNow_Always(immediate, timeout) == immediate

\* const callNow = immediate && !timeout
CallNow(immediate, timeout) == immediate /\ ~Truthy(timeout)

ClearTimeout_Noop(timers, timeout) == timers

\* clearTimeout(timeout): cancels the timer with that id, if there is one
ClearTimeout(timers, timeout) ==
    IF timeout.kind = "number"
      THEN {tm \in timers : tm.id /= timeout.val}
      ELSE timers

\* timeout = setTimeout(later, wait): the id of the new timer, a positive
\* number never given before
SetTimeoutId(calls) == calls + 1

\* later: timeout = null
LaterTimeout(timeout) == JsNull

\* later: if (!immediate) func(...args)
LaterRuns(immediate) == ~immediate

NoDebounceCall == [t |-> -1, arg |-> "", idle |-> FALSE, ran |-> FALSE]
NoDebounceExec == [t |-> -1, arg |-> "", src |-> "", callT |-> -1, callArg |-> "", since |-> 0]

DebounceInit ==
    /\ dbTimeout = JsUndefined
    /\ dbTimers = {}
    /\ dbCalls = 0
    /\ dbSince = 0
    /\ dbScen = 0
    /\ dbLastCall = NoDebounceCall
    /\ dbExecCount = 0
    /\ dbLastExec = NoDebounceExec

\* one call executedFunction(arg) of the wrapper returned by debounce
DebounceCall ==
    /\ dbCalls < MaxDbCalls
    /\ \E arg \in Args :
         LET callNow == CallNow(dbImmediate, dbTimeout)
             id == SetTimeoutId(dbCalls)
         IN /\ dbTimers' = ClearTimeout(dbTimers, dbTimeout)
                             \cup {[id |-> id, due |-> now + dbWait, arg |-> arg]}
            /\ dbTimeout' = JsNum(id)
            /\ dbLastCall' = [t |-> now, arg |-> arg, idle |-> dbTimers = {}, ran |-> callNow]
            /\ IF callNow
                 THEN /\ dbExecCount' = dbExecCount + 1
                      /\ dbLastExec' = [t |-> now, arg |-> arg, src |-> "call",
                                        callT |-> now, callArg |-> arg, since |-> dbSince + 1]
                      /\ dbSince' = 0
                 ELSE /\ dbSince' = dbSince + 1
                      /\ UNCHANGED <<dbExecCount, dbLastExec>>
    /\ dbCalls' = dbCalls + 1
    /\ dbScen' = IF /\ dbScen = dbCalls
                    /\ dbCalls < Len(ScenarioCalls)
                    /\ now = ScenarioCalls[dbCalls + 1]
                   THEN dbScen + 1
                   ELSE -1
    /\ UNCHANGED <<now, dbWait, dbImmediate, thVars, mgrVars, anVars, extVars>>

\* a pending timer of debounce fires: later()
DebounceTimer ==
    /\ \E tm \in dbTimers :
         /\ tm.due = now
         /\ dbTimers' = dbTimers \ {tm}
         /\ dbTimeout' = LaterTimeout(dbTimeout)
         /\ IF LaterRuns(dbImmediate)
              THEN /\ dbExecCount' = dbExecCount + 1
                   /\ dbLastExec' = [t |-> now, arg |-> tm.arg, src |-> "timer",
                                     callT |-> dbLastCall.t, callArg |-> dbLastCall.arg,
                                     since |-> dbSince]
                   /\ dbSince' = 0
              ELSE UNCHANGED <<dbExecCount, dbLastExec, dbSince>>
    /\ UNCHANGED <<now, dbWait, dbImmediate, dbCalls, dbScen, dbLastCall, thVars, mgrVars, anVars, extVars>>

-----------------------------------------------------------------------------
(* AnimationManager: the IntersectionObserver callback *)

Elements == {"e1", "e2", "e3"}

\* what the host puts in one IntersectionObserverEntry
Entries == [target : Elements, isIntersecting : BOOLEAN]

\* entry.<name>: an IntersectionObserverEntry has the boolean property
\* isIntersecting; a name it does not have reads as undefined
EntryProp(entry, name) ==
    IF name = "isIntersecting" THEN JsBool(entry.isIntersecting) ELSE JsUndefined

ShouldAnimate_NoGuard(entry, animated) == Truthy(EntryProp(entry, "isIntersecting"))

\* if (entry.isIntersection && !this.animatedElements.has(entry.target))
ShouldAnimate(entry, animated) ==
    /\ Truthy(EntryProp(entry, "isIntersection"))
    /\ entry.target \notin animated

\* this.animatedElement(entry.target); this.animatedElements.add(entry.target)
AnimateAndMark(st, target) ==
    [animated |-> st.animated \cup {target},
     invoked |-> [st.invoked EXCEPT ![target] = @ + 1],
     repeats |-> st.repeats + (IF target \in st.animated THEN 1 ELSE 0)]

ForEachEntry_MarkOnly(entries, i, st) ==
    [st EXCEPT !.animated = @ \cup {entries[k].target : k \in i..Len(entries)}]

\* entries.forEach(entry => { ... }), from entry i on
RECURSIVE ForEachEntry(_, _, _)
ForEachEntry(entries, i, st) ==
    IF i > Len(entries)
      THEN st
      ELSE ForEachEntry(entries, i + 1,
                        IF ShouldAnimate(entries[i], st.animated)
                          THEN AnimateAndMark(st, entries[i].target)
                          ELSE st)

\* the batches of entries the host can hand to the callback
Batches(observed) ==
    UNION {[1..n -> {en \in Entries : en.target \in observed}] : n \in 1..MaxEntries}

\* constructor and setupIntersectionObserver have run: the observer exists,
\* nothing is animated yet
ManagerInit ==
    /\ observer = "IntersectionObserver"
    /\ animatedElements = {}
    /\ mgrInvoked = [e \in Elements |-> 0]
    /\ mgrRepeats = 0
    /\ mgrReports = [e \in Elements |-> 0]
    /\ cbTurns = 0
    /\ cbEntries = <<>>
    /\ cbPrev = [animated |-> {}, invoked |-> [e \in Elements |-> 0]]

\* one turn of the callback given to new IntersectionObserver
ObserverCallback ==
    /\ observer = "IntersectionObserver"
    /\ cbTurns < MaxTurns
    /\ \E entries \in Batches(mgrObserved) :
         LET st == ForEachEntry(entries, 1, [animated |-> animatedElements,
                                             invoked |-> mgrInvoked,
                                             repeats |-> mgrRepeats])
         IN /\ animatedElements' = st.animated
            /\ mgrInvoked' = st.invoked
            /\ mgrRepeats' = st.repeats
            /\ cbEntries' = entries
            /\ mgrReports' = [e \in Elements |->
                 IF \E i \in 1..Len(entries) :
                      entries[i].target = e /\ entries[i].isIntersecting
                   THEN mgrReports[e] + 1
                   ELSE mgrReports[e]]
    /\ cbPrev' = [animated |-> animatedElements, invoked |-> mgrInvoked]
    /\ cbTurns' = cbTurns + 1
    /\ UNCHANGED <<now, observer, mgrObserved, thVars, dbVars, anVars, extVars>>

-----------------------------------------------------------------------------
(* Numbers of the interpolation: exact fractions n/d with d > 0 in lowest    *)
(* terms; d = 0 stands for the values a division by zero gives: NaN (n = 0), *)
(* Infinity (n = 1), -Infinity (n = -1)                                      *)

Abs(x) == IF x < 0 THEN -x ELSE x
Sign(x) == IF x < 0 THEN -1 ELSE IF x > 0 THEN 1 ELSE 0

RECURSIVE GCD(_, _)
GCD(a, b) == IF b = 0 THEN a ELSE GCD(b, a % b)

Rat(n, d) ==
    LET g == GCD(Abs(n), Abs(d))
        sg == IF d < 0 THEN -1 ELSE 1
    IN [n |-> (sg * n) \div g, d |-> (sg * d) \div g]

NaN == [n |-> 0, d |-> 0]
One == [n |-> 1, d |-> 1]
Zero == [n |-> 0, d |-> 1]

\* a / b
Div(a, b) == IF b = 0 THEN [n |-> Sign(a), d |-> 0] ELSE Rat(a, b)

\* Math.min(x, 1)
MathMin1(x) ==
    IF x.d = 0
      THEN IF x.n > 0 THEN One ELSE x
      ELSE IF x.n >= x.d THEN One ELSE x

\* x < 1
LessThanOne(x) == IF x.d = 0 THEN x.n < 0 ELSE x.n < x.d

\* x <= y for fractions; false when either is NaN
Leq(x, y) ==
    IF x.d /= 0 /\ y.d /= 0
      THEN x.n * y.d <= y.n * x.d
      ELSE /\ x /= NaN /\ y /= NaN
           /\ (x.d = 0 /\ x.n < 0) \/ (y.d = 0 /\ y.n > 0) \/ x = y

\* 1 - Math.pow(1 - progress, 3)
EaseOutCubic(p) ==
    IF p.d = 0
      THEN [n |-> Sign(p.n), d |-> 0]
      ELSE Rat(p.d * p.d * p.d - (p.d - p.n) * (p.d - p.n) * (p.d - p.n), p.d * p.d * p.d)

\* startValue + (endValue - startValue) * easedProgress
Interpolate(startValue, endValue, eased) ==
    IF eased.d = 0
      THEN [n |-> Sign(endValue - startValue) * eased.n, d |-> 0]
      ELSE Rat(startValue * eased.d + (endValue - startValue) * eased.n, eased.d)

-----------------------------------------------------------------------------
(* animate(element, properties, duration) *)

Props == {"opacity", "width"}

\* target values a caller passes: a number (unit "") or a CSS length string
TargetsOf(prop) ==
    IF prop = "opacity"
      THEN {[num |-> 0, unit |-> ""], [num |-> 1, unit |-> ""]}
      ELSE {[num |-> 2, unit |-> ""], [num |-> 2, unit |-> "px"], [num |-> 2, unit |-> "%"]}

\* the objects passed as properties
PropertyMaps ==
    UNION {{f \in [P -> UNION {TargetsOf(p) : p \in P}] : \A p \in P : f[p] \in TargetsOf(p)}
             : P \in (SUBSET Props) \ {{}}}

\* parseFloat(getComputedStyle(element)[prop]) || 0
StartNums == {0, 1}

Durations == {-2, 0, 2, 3}

EmptyMap == [p \in {} |-> 0]

\* parseFloat(endValues[prop]): the leading number of the target
ParseFloat(target) == target.num

\* prop.includes('opacity') ? '' : 'px'
Suffix(prop) == IF prop = "opacity" THEN "" ELSE "px"

\* element.style[prop] = properties[prop]: the target as the caller gave it
RawStyle(target) == [val |-> Rat(target.num, 1), unit |-> target.unit]

\* the style value a target stands for: a plain number is the opacity itself
\* or a length in px
TargetStyle(prop, target) ==
    [val |-> Rat(target.num, 1),
     unit |-> IF target.unit = "" THEN Suffix(prop) ELSE target.unit]

ShortCircuit_ElementOnly(element, reduced) == element = "null"

\* if (!element || prefersReducedMotion())
ShortCircuit(element, reduced) == element = "null" \/ reduced

StartTimeAt_AlwaysReset(startTime, currentTime) == currentTime

\* if (!startTime) startTime = currentTime
StartTimeAt(startTime, currentTime) ==
    IF ~Truthy(startTime) THEN currentTime ELSE startTime.val

\* const progress = Math.min(timeElapsed / duration, 1)
Progress(timeElapsed, duration) == MathMin1(Div(timeElapsed, duration))

\* element.style[prop] = currentValue + (prop.includes('opacity') ? '' : 'px')
StepStyle(prop, startValue, target, progress) ==
    [val |-> Interpolate(startValue, ParseFloat(target), EaseOutCubic(progress)),
     unit |-> Suffix(prop)]

AnimateInit ==
    /\ anPc = "idle"
    /\ anElement = "null"
    /\ anReduced = FALSE
    /\ anProps = EmptyMap
    /\ anDuration = 300
    /\ anStartValues = EmptyMap
    /\ anStartTime = JsNull
    /\ anStyle = EmptyMap
    /\ anPending = 0
    /\ anScheduled = 0
    /\ anResolved = 0
    /\ anSteps = 0
    /\ anProgress = Zero
    /\ anPrevProgress = Zero
    /\ anClock = 0

\* the promise executor of animate(element, properties, duration), where
\* prefersReducedMotion() returns reduced
AnimateExec(element, reduced, properties, duration) ==
    /\ anPc = "idle"
    /\ anElement' = element
    /\ anReduced' = reduced
    /\ anProps' = properties
    /\ anDuration' = duration
    /\ IF ShortCircuit(element, reduced)
         THEN \* element.style of an absent element: the executor throws
              \* at the first property and the promise is rejected
              /\ IF element = "null"
                   THEN /\ anPc' = "rejected"
                        /\ UNCHANGED <<anStyle, anResolved>>
                   ELSE /\ anPc' = "done"
                        /\ anStyle' = [p \in DOMAIN properties |-> RawStyle(properties[p])]
                        /\ anResolved' = anResolved + 1
              /\ UNCHANGED <<anStartValues, anPending, anScheduled>>
         ELSE /\ \E startValues \in [DOMAIN properties -> StartNums] :
                   anStartValues' = startValues
              /\ anPc' = "running"
              /\ anPending' = anPending + 1
              /\ anScheduled' = anScheduled + 1
              /\ UNCHANGED <<anStyle, anResolved>>
    /\ UNCHANGED <<anStartTime, anSteps, anProgress, anPrevProgress, anClock>>

\* the call animate(element, properties, duration)
AnimateCall ==
    /\ \E element \in {"el", "null"}, reduced \in BOOLEAN,
          properties \in PropertyMaps, duration \in Durations :
         AnimateExec(element, reduced, properties, duration)
    /\ UNCHANGED <<now, thVars, dbVars, mgrVars, extVars>>

FramesRequested_Always(progress) == 1

\* the requestAnimationFrame calls of one step: one while progress < 1
FramesRequested(progress) == IF LessThanOne(progress) THEN 1 ELSE 0

\* animationStep(currentTime), run as a requested frame callback
AnimationStepAt(currentTime) ==
    /\ anPending > 0
    /\ LET startTime == StartTimeAt(anStartTime, currentTime)
           timeElapsed == currentTime - startTime
           progress == Progress(timeElapsed, anDuration)
       IN /\ anStartTime' = JsNum(startTime)
          /\ anClock' = currentTime
          /\ anStyle' = [p \in DOMAIN anProps |->
                           StepStyle(p, anStartValues[p], anProps[p], progress)]
          /\ anPrevProgress' = anProgress
          /\ anProgress' = progress
          /\ anPending' = anPending - 1 + FramesRequested(progress)
          /\ anScheduled' = anScheduled + FramesRequested(progress)
          /\ IF LessThanOne(progress)
               THEN UNCHANGED <<anPc, anResolved>>
               ELSE /\ anResolved' = anResolved + 1
                    /\ anPc' = "done"
    /\ anSteps' = anSteps + 1
    /\ UNCHANGED <<anElement, anReduced, anProps, anDuration, anStartValues>>

\* the host runs a requested frame callback, at a timestamp not before the
\* latest one
AnimationStep ==
    /\ anSteps < MaxFrames
    /\ \E currentTime \in anClock..MaxFrameTime : AnimationStepAt(currentTime)
    /\ UNCHANGED <<now, thVars, dbVars, mgrVars, extVars>>

-----------------------------------------------------------------------------
(* The host clock *)

Tick ==
    /\ \E d \in Steps :
         /\ now + d <= MaxTime
         /\ \A due \in thTimers : now + d <= due
         /\ \A tm \in dbTimers : now + d <= tm.due
         /\ now' = now + d
    /\ UNCHANGED <<thVars, dbVars, mgrVars, anVars, extVars>>

-----------------------------------------------------------------------------
(* The life of the AnimationManager: construction, the host's preference,
   animate calls made by the page, scrolling *)

\* the two files that declare class AnimationManager; the one loaded first
\* is the class in effect
ManagerClasses == {"animations.js", "utils.js"}

\* the methods the class body defines
Methods(class) ==
    IF class = "animations.js"
        THEN {"constructor", "init", "setupIntersectionObserver"}
        ELSE {"constructor", "init"}

\* prefersReducedMotion(): the media query is evaluated at every call
PrefersReducedMotion(hostNow) == hostNow

\* the calls init() makes on this, in order
InitCalls(reduced) ==
    IF reduced
        THEN <<"disableAnimations">>
        ELSE <<"setupIntersectionObserver", "setupScrollAnimations",
               "setupCounterAnimations">>

\* the state of a construction under way
Constructing == [error |-> "", observer |-> "null", ran |-> <<>>]

\* the body of setupIntersectionObserver(): new IntersectionObserver(...)
\* with no check that the host has it, then this.observeFadeElements()
SetupIntersectionObserver(class, hasIO, st) ==
    IF ~hasIO
        THEN [st EXCEPT !.error = "ReferenceError"]
        ELSE LET made == [st EXCEPT !.observer = "IntersectionObserver"]
             IN IF "observeFadeElements" \in Methods(class)
                    THEN [made EXCEPT !.ran = Append(@, "setupIntersectionObserver")]
                    ELSE [made EXCEPT !.error = "TypeError"]

\* this.m() for each call in turn: calling a method the class does not
\* define throws TypeError, and an exception ends the sequence
RECURSIVE RunCalls(_, _, _, _)
RunCalls(calls, class, hasIO, st) ==
    IF calls = <<>> \/ st.error /= ""
        THEN st
        ELSE LET m == Head(calls)
                 after == IF m \notin Methods(class)
                              THEN [st EXCEPT !.error = "TypeError"]
                              ELSE IF m = "setupIntersectionObserver"
                                  THEN SetupIntersectionObserver(class, hasIO, st)
                                  ELSE [st EXCEPT !.ran = Append(@, m)]
             IN RunCalls(Tail(calls), class, hasIO, after)

\* no manager has been constructed, nothing has been asked of the page
LifecycleInit ==
    /\ mgrPc = "none"
    /\ mgrError = ""
    /\ mgrRan = <<>>
    /\ initReduced = JsUndefined
    /\ finalApplied = FALSE
    /\ disposeRequested = FALSE
    /\ prefAtCall = [called |-> FALSE, host |-> FALSE, init |-> JsUndefined]

\* before new AnimationManager(): no observer, nothing observed or animated
ManagerUnconstructed ==
    /\ observer = "null"
    /\ mgrObserved = {}
    /\ animatedElements = {}
    /\ mgrInvoked = [e \in Elements |-> 0]
    /\ mgrRepeats = 0
    /\ mgrReports = [e \in Elements |-> 0]
    /\ cbTurns = 0
    /\ cbEntries = <<>>
    /\ cbPrev = [animated |-> {}, invoked |-> [e \in Elements |-> 0]]

ScrollInit ==
    /\ scrollIdx = 0
    /\ navScrolled = FALSE
    /\ scrollTransitions = 0

\* new AnimationManager(): the constructor and the init() it calls
Construct ==
    /\ mgrPc = "none"
    /\ LET reduced == PrefersReducedMotion(hostReduced)
           st == RunCalls(InitCalls(reduced), mgrClass, hostHasIO, Constructing)
       IN /\ initReduced' = JsBool(reduced)
          /\ observer' = st.observer
          /\ animatedElements' = {}
          /\ mgrRan' = st.ran
          /\ mgrError' = st.error
          /\ mgrPc' = IF st.error = "" THEN "constructed" ELSE "threw"
          \* no method that applies the completed visual state is defined
          /\ finalApplied' = FALSE
    /\ UNCHANGED <<now, hostReduced, hostHasIO, mgrClass, disposeRequested, prefAtCall,
                   mgrObserved, mgrInvoked, mgrRepeats, mgrReports, cbTurns, cbEntries,
                   cbPrev, thVars, dbVars, anVars, scVars, utilVars>>

\* the user changes the reduced-motion setting of the host
PreferenceChange ==
    /\ hostReduced' = ~hostReduced
    /\ UNCHANGED <<now, hostHasIO, mgrClass, mgrPc, mgrError, mgrRan, initReduced,
                   finalApplied, disposeRequested, prefAtCall,
                   thVars, dbVars, mgrVars, anVars, scVars, utilVars>>

\* what animate takes the preference to be: prefersReducedMotion() at the
\* call, whatever init() read
ReducedMotionAtCall_Cached(hostNow, atInit) == Truthy(atInit)

ReducedMotionAtCall(hostNow, atInit) == PrefersReducedMotion(hostNow)

LifecycleTargets == {[num |-> 1, unit |-> ""]}

LifecycleDurations == {2}

\* the page calls animate on an element, at any time
PageAnimate ==
    /\ \E element \in {"el", "null"}, target \in LifecycleTargets,
          duration \in LifecycleDurations :
         AnimateExec(element, ReducedMotionAtCall(hostReduced, initReduced),
                     [p \in {"opacity"} |-> target], duration)
    /\ prefAtCall' = [called |-> TRUE, host |-> hostReduced, init |-> initReduced]
    /\ UNCHANGED <<now, hostReduced, hostHasIO, mgrClass, mgrPc, mgrError, mgrRan,
                   initReduced, finalApplied, disposeRequested,
                   thVars, dbVars, mgrVars, scVars, utilVars>>

\* the page calls dispose() on what new AnimationManager() left it: no
\* class defines dispose, the call throws TypeError and stops nothing
DisposeRequest ==
    /\ mgrPc /= "none"
    /\ ~disposeRequested
    /\ "dispose" \notin Methods(mgrClass)
    /\ disposeRequested' = TRUE
    /\ UNCHANGED <<now, hostReduced, hostHasIO, mgrClass, mgrPc, mgrError, mgrRan,
                   initReduced, finalApplied, prefAtCall,
                   thVars, dbVars, mgrVars, anVars, scVars, utilVars>>

\* the vertical offsets the page is scrolled through
ScrollSamples == <<0, 50, 150, 200, 90>>

\* once the manager has been constructed the host dispatches a scroll event
\* at the next offset: no code attaches a scroll listener, no class changes
Scroll ==
    /\ mgrPc /= "none"
    /\ scrollIdx < Len(ScrollSamples)
    /\ scrollIdx' = scrollIdx + 1
    /\ UNCHANGED <<now, navScrolled, scrollTransitions,
                   thVars, dbVars, mgrVars, anVars, lcVars, utilVars>>

-----------------------------------------------------------------------------
(* animate on a host that keeps delivering frames, each with a later
   timestamp than the one before *)

MaxFirstFrame == 2
MaxStride == 2
MaxFairTime == 12

PositiveDurations == {d \in Durations : d > 0}

\* animate(element, properties, duration) on a present element, with a
\* positive duration and reduced motion off
AnimatePositive ==
    /\ \E properties \in PropertyMaps, duration \in PositiveDurations :
         AnimateExec("el", FALSE, properties, duration)
    /\ UNCHANGED <<now, thVars, dbVars, mgrVars, extVars>>

\* the timestamps the next frame can carry: any for the first frame, above
\* the latest one for every later frame
FrameTimes ==
    {currentTime \in (IF anSteps = 0 THEN 0..MaxFirstFrame
                                      ELSE (anClock + 1)..(anClock + MaxStride)) :
        currentTime <= MaxFairTime}

\* the host runs the requested frame callback
FrameDelivered ==
    /\ \E currentTime \in FrameTimes : AnimationStepAt(currentTime)
    /\ UNCHANGED <<now, thVars, dbVars, mgrVars, extVars>>

\* a frame callback is pending and runs: what every step of FrameDelivered
\* does to the frame count and the clock, and no other step does
FrameDue ==
    /\ anPending > 0
    /\ \E currentTime \in FrameTimes : anClock' = currentTime
    /\ anSteps' = anSteps + 1

-----------------------------------------------------------------------------
(* smoothScrollTo's easing function, on exact fractions *)

GridBits == 3

\* 2^k
RECURSIVE Pow2(_)
Pow2(k) == IF k = 0 THEN 1 ELSE 2 * Pow2(k - 1)

FromInt(i) == [n |-> i, d |-> 1]

\* arithmetic of finite fractions
RatAdd(x, y) == Rat(x.n * y.d + y.n * x.d, x.d * y.d)
RatSub(x, y) == Rat(x.n * y.d - y.n * x.d, x.d * y.d)
RatMul(x, y) == Rat(x.n * y.n, x.d * y.d)
RatNeg(x) == [n |-> -x.n, d |-> x.d]
\* x / y, y not zero
RatDiv(x, y) == Rat(x.n * y.d, x.d * y.n)
RatLess(x, y) == x.n * y.d < y.n * x.d

Decrement_Skipped(t) == t

\* t--
Decrement(t) == RatSub(t, One)

\* function ease(t, b, c, d), d not zero
Ease(t, b, c, d) ==
    LET half == RatDiv(FromInt(c), FromInt(2))
        t1 == RatDiv(t, RatDiv(FromInt(d), FromInt(2)))
    IN IF RatLess(t1, One)
           THEN RatAdd(RatMul(RatMul(half, t1), t1), FromInt(b))
           ELSE LET t2 == Decrement(t1)
                IN RatAdd(RatMul(RatNeg(half),
                                 RatSub(RatMul(t2, RatSub(t2, FromInt(2))), One)),
                          FromInt(b))

\* easeInOutQuad on [0, 1] as it is usually given: 2t^2 below one half,
\* 1 - (2 - 2t)^2 / 2 from there
QuadInOut(t) ==
    IF RatLess(t, Rat(1, 2))
        THEN RatMul(FromInt(2), RatMul(t, t))
        ELSE LET u == RatSub(FromInt(2), RatMul(FromInt(2), t))
             IN RatSub(One, RatDiv(RatMul(u, u), FromInt(2)))

\* the times tried: the multiples of 2^-GridBits in [0, 1]
EaseGrid == {Rat(k, Pow2(GridBits)) : k \in 0..Pow2(GridBits)}

\* start positions, distances and durations tried
EaseStarts == {0, 1}
EaseDistances == {-1, 1, 2}
EaseDurations == {1, 2}

EaseInit ==
    /\ esDone = FALSE
    /\ esOut = Zero

\* the call ease(t, b, c, d) made by a frame of smoothScrollTo
EaseApply ==
    /\ ~esDone
    /\ esDone' = TRUE
    /\ esOut' = Ease(esT, esB, esC, esD)
    /\ UNCHANGED <<now, esT, esB, esC, esD, thVars, dbVars, mgrVars, anVars, lcVars, scVars,
                   ovVars, domVars>>

-----------------------------------------------------------------------------
(* Two animate calls on the same element and property, the second made
   while the first is running; reduced motion is off *)

MaxOverlapFrames == 3

Tasks == {1, 2}

\* the closure of a call not made yet
NoTask ==
    [pc |-> "idle", target |-> [num |-> 0, unit |-> ""], duration |-> 0,
     startValue |-> 0, startTime |-> JsNull]

\* element.style[prop] before any call writes it
Unstyled == [val |-> Zero, unit |-> "unset"]

OverlapInit ==
    /\ ovTask = [i \in Tasks |-> NoTask]
    /\ ovQueue = <<>>
    /\ ovStyle = Unstyled
    /\ ovWriter = 0
    /\ ovWrote = [i \in Tasks |-> Unstyled]
    /\ ovClock = 0
    /\ ovFrames = 0
    /\ ovFrameLog = <<>>
    /\ ovDoneFrame = [i \in Tasks |-> 0]
    /\ ovBothStepped = 0

\* animate(element, {[ovProp]: target}, duration) on the present element:
\* the start value is read, nothing is written, the first frame is requested
OverlapCall(i) ==
    /\ ovTask[i].pc = "idle"
    /\ i = 2 => ovTask[1].pc = "running"
    /\ \E target \in TargetsOf(ovProp), duration \in Durations, startValue \in StartNums :
         ovTask' = [ovTask EXCEPT ![i] =
                       [pc |-> "running", target |-> target, duration |-> duration,
                        startValue |-> startValue, startTime |-> JsNull]]
    /\ ovQueue' = Append(ovQueue, i)
    /\ UNCHANGED <<now, ovProp, ovStyle, ovWriter, ovWrote, ovClock, ovFrames, ovFrameLog,
                   ovDoneFrame, ovBothStepped,
                   thVars, dbVars, mgrVars, anVars, lcVars, scVars, easeVars,
                   domVars>>

FirstCall == OverlapCall(1)

SecondCall == OverlapCall(2)

RECURSIVE Reverse(_)
Reverse(q) == IF q = <<>> THEN <<>> ELSE Append(Reverse(Tail(q)), Head(q))

FrameOrder_Reversed(queue) == Reverse(queue)

\* the host runs the callbacks of a frame in the order they were requested
FrameOrder(queue) == queue

\* animationStep(currentTime) of each call of the queue in turn, all with the
\* timestamp of the frame; a callback requested by a step runs next frame
RECURSIVE RunFrame(_, _, _)
RunFrame(queue, currentTime, st) ==
    IF queue = <<>>
        THEN st
        ELSE LET i == Head(queue)
                 t == st.tasks[i]
                 startTime == StartTimeAt(t.startTime, currentTime)
                 progress == Progress(currentTime - startTime, t.duration)
                 value == StepStyle(ovProp, t.startValue, t.target, progress)
                 more == LessThanOne(progress)
             IN RunFrame(Tail(queue), currentTime,
                    [st EXCEPT !.tasks[i] = [t EXCEPT !.startTime = JsNum(startTime),
                                                      !.pc = IF more THEN "running" ELSE "done"],
                               !.style = value,
                               !.writer = i,
                               !.wrote[i] = value,
                               !.next = IF more THEN Append(@, i) ELSE @,
                               !.log = Append(@, i)])

\* the host runs a frame: every callback requested before it, each frame at
\* a later timestamp than the one before
OverlapFrame ==
    /\ ovQueue /= <<>>
    /\ ovFrames < MaxOverlapFrames
    /\ \E currentTime \in (IF ovFrames = 0 THEN 0..MaxFirstFrame
                                           ELSE (ovClock + 1)..(ovClock + MaxStride)) :
         LET st == RunFrame(FrameOrder(ovQueue), currentTime,
                            [tasks |-> ovTask, style |-> ovStyle, writer |-> ovWriter,
                             wrote |-> ovWrote, next |-> <<>>, log |-> <<>>])
         IN /\ ovClock' = currentTime
            /\ ovTask' = st.tasks
            /\ ovStyle' = st.style
            /\ ovWriter' = st.writer
            /\ ovWrote' = st.wrote
            /\ ovQueue' = st.next
            /\ ovFrameLog' = st.log
            /\ ovDoneFrame' = [i \in Tasks |->
                                 IF st.tasks[i].pc = "done" /\ ovTask[i].pc /= "done"
                                     THEN ovFrames + 1 ELSE ovDoneFrame[i]]
            /\ ovBothStepped' = IF Len(st.log) = 2 THEN ovBothStepped + 1 ELSE ovBothStepped
    /\ ovFrames' = ovFrames + 1
    /\ UNCHANGED <<now, ovProp, thVars, dbVars, mgrVars, anVars, lcVars, scVars, easeVars,
                   domVars>>

-----------------------------------------------------------------------------
(* smoothScrollTo(target, offset, duration) *)

MaxScrollTime == 5
MaxScrollFrames == 4

\* element.offsetTop, offset, window.pageYOffset and duration tried
OffsetTops == {0, 4, 8}
Offsets == {0, 2}
PageOffsets == {0, 4}
ScrollDurations == {2, 3}

SmoothScrollInit ==
    /\ ssPc = "idle"
    /\ ssTargetPosition = 0
    /\ ssStartPosition = 0
    /\ ssDuration = 800
    /\ ssStarTime = JsNull
    /\ ssScrollY = Zero
    /\ ssScrolls = 0
    /\ ssPending = 0
    /\ ssElapsed = 0
    /\ ssClock = 0

\* if (starTime === null) starTime = currentTime
StarTimeAt(starTime, currentTime) ==
    IF starTime = JsNull THEN currentTime ELSE starTime.val

\* the call smoothScrollTo(target, offset, duration)
SmoothScrollTo ==
    /\ ssPc = "idle"
    /\ \E element \in {"el", "null"}, offsetTop \in OffsetTops, offset \in Offsets,
          pageYOffset \in PageOffsets, duration \in ScrollDurations :
         IF element = "null"
             THEN \* if (!element) return
                  /\ ssPc' = "absent"
                  /\ UNCHANGED <<ssTargetPosition, ssStartPosition, ssDuration, ssScrollY,
                                 ssPending>>
             ELSE /\ ssPc' = "running"
                  /\ ssTargetPosition' = offsetTop - offset
                  /\ ssStartPosition' = pageYOffset
                  /\ ssDuration' = duration
                  /\ ssScrollY' = FromInt(pageYOffset)
                  /\ ssPending' = ssPending + 1
    /\ UNCHANGED <<now, ssStarTime, ssScrolls, ssElapsed, ssClock, lsVars,
                   thVars, dbVars, mgrVars, anVars, lcVars, scVars, easeVars, ovVars>>

\* the host runs the requested frame callback: animation(currentTime)
SmoothScrollFrame ==
    /\ ssPending > 0
    /\ ssScrolls < MaxScrollFrames
    /\ \E currentTime \in ssClock..MaxScrollTime :
         LET starTime == StarTimeAt(ssStarTime, currentTime)
             timeElapsed == currentTime - starTime
             distance == ssTargetPosition - ssStartPosition
             run == Ease(FromInt(timeElapsed), ssStartPosition, distance, ssDuration)
         IN /\ ssStarTime' = JsNum(starTime)
            /\ ssClock' = currentTime
            /\ ssElapsed' = timeElapsed
            /\ ssScrollY' = run
            /\ ssScrolls' = ssScrolls + 1
            /\ IF timeElapsed < ssDuration
                 THEN /\ ssPending' = ssPending - 1 + 1
                      /\ UNCHANGED ssPc
                 ELSE /\ ssPending' = ssPending - 1
                      /\ ssPc' = "done"
    /\ UNCHANGED <<now, ssTargetPosition, ssStartPosition, ssDuration, lsVars,
                   thVars, dbVars, mgrVars, anVars, lcVars, scVars, easeVars, ovVars>>

-----------------------------------------------------------------------------
(* addEventListenerSafe and removeEventListnerSafe, on one element and one
   event type *)

MaxListenerOps == 4

Handlers == {"h1", "h2"}

\* the methods of an Element that the two functions call
ElementMethods == {"addEventListener", "removeEventListener"}

NoListenerCall == [op |-> "none", element |-> "null", handler |-> "h1", before |-> {}]

ListenerInit ==
    /\ lsAttached = {}
    /\ lsOps = 0
    /\ lsLast = NoListenerCall
    /\ lsThrew = FALSE
    /\ lsErrors = 0

\* el.<method>(event, handler) inside try/catch, for a present element and
\* a function handler: a method the element does not have is undefined,
\* calling it throws TypeError, the catch block logs it
ListenerCall(method, handler, attached) ==
    IF method \notin ElementMethods
        THEN [attached |-> attached, errors |-> 1]
        ELSE IF method = "addEventListener"
            THEN [attached |-> attached \cup {handler}, errors |-> 0]
            ELSE [attached |-> attached \ {handler}, errors |-> 0]

\* addEventListenerSafe(element, event, handler)
AddEventListenerSafe ==
    /\ lsOps < MaxListenerOps
    /\ \E element \in {"el", "null"}, handler \in Handlers :
         LET out == IF element = "null"
                        THEN [attached |-> lsAttached, errors |-> 0]
                        ELSE ListenerCall("addEventListener", handler, lsAttached)
         IN /\ lsAttached' = out.attached
            /\ lsErrors' = lsErrors + out.errors
            /\ lsLast' = [op |-> "add", element |-> element, handler |-> handler,
                          before |-> lsAttached]
    /\ lsOps' = lsOps + 1
    /\ UNCHANGED <<now, lsThrew, ssVars,
                   thVars, dbVars, mgrVars, anVars, lcVars, scVars, easeVars, ovVars>>

\* removeEventListnerSafe(element, event, handler): it calls
\* el.removeEventListner
RemoveEventListnerSafe ==
    /\ lsOps < MaxListenerOps
    /\ \E element \in {"el", "null"}, handler \in Handlers :
         LET out == IF element = "null"
                        THEN [attached |-> lsAttached, errors |-> 0]
                        ELSE ListenerCall("removeEventListner", handler, lsAttached)
         IN /\ lsAttached' = out.attached
            /\ lsErrors' = lsErrors + out.errors
            /\ lsLast' = [op |-> "remove", element |-> element, handler |-> handler,
                          before |-> lsAttached]
    /\ lsOps' = lsOps + 1
    /\ UNCHANGED <<now, lsThrew, ssVars,
                   thVars, dbVars, mgrVars, anVars, lcVars, scVars, easeVars, ovVars>>

-----------------------------------------------------------------------------
(* Specifications *)

\* the components a specification does not exercise: constructed, never used
ThrottleIdle == thLimit = 100 /\ ThrottleInit
DebounceIdle == dbWait = 200 /\ dbImmediate = FALSE /\ DebounceInit
ManagerIdle == mgrObserved = {} /\ ManagerInit
AnimateIdle == AnimateInit
HostIdle == hostReduced = FALSE /\ hostHasIO = TRUE /\ mgrClass = "animations.js"
LifecycleIdle == HostIdle /\ LifecycleInit /\ ScrollInit
EaseIdle == esT = Zero /\ esB = 0 /\ esC = 1 /\ esD = 1 /\ EaseInit
OverlapIdle == ovProp = "opacity" /\ OverlapInit
DomIdle == SmoothScrollInit /\ ListenerInit
UtilitiesIdle == EaseIdle /\ OverlapIdle /\ DomIdle

InitThrottle ==
    /\ now = 0
    /\ LifecycleIdle
    /\ UtilitiesIdle
    /\ thLimit \in Limits
    /\ ThrottleInit
    /\ DebounceIdle
    /\ ManagerIdle
    /\ AnimateIdle

NextThrottle == ThrottleCall \/ ThrottleTimer \/ Tick

SpecThrottle == InitThrottle /\ [][NextThrottle]_vars

InitDebounce ==
    /\ now = 0
    /\ LifecycleIdle
    /\ UtilitiesIdle
    /\ dbWait \in Waits
    /\ dbImmediate \in BOOLEAN
    /\ DebounceInit
    /\ ThrottleIdle
    /\ ManagerIdle
    /\ AnimateIdle

NextDebounce == DebounceCall \/ DebounceTimer \/ Tick

SpecDebounce == InitDebounce /\ [][NextDebounce]_vars

\* the page's .fade-in elements, any of them, are under observation
InitManager ==
    /\ now = 0
    /\ LifecycleIdle
    /\ UtilitiesIdle
    /\ mgrObserved \in SUBSET Elements
    /\ ManagerInit
    /\ ThrottleIdle
    /\ DebounceIdle
    /\ AnimateIdle

NextManager == ObserverCallback

SpecManager == InitManager /\ [][NextManager]_vars

InitAnimate ==
    /\ now = 0
    /\ LifecycleIdle
    /\ UtilitiesIdle
    /\ AnimateInit
    /\ ThrottleIdle
    /\ DebounceIdle
    /\ ManagerIdle

NextAnimate == AnimateCall \/ AnimationStep

SpecAnimate == InitAnimate /\ [][NextAnimate]_vars

\* the page before any manager is constructed, on any host
InitLifecycle ==
    /\ now = 0
    /\ hostReduced \in BOOLEAN
    /\ hostHasIO \in BOOLEAN
    /\ mgrClass \in ManagerClasses
    /\ LifecycleInit
    /\ ScrollInit
    /\ ThrottleIdle
    /\ DebounceIdle
    /\ AnimateIdle
    /\ UtilitiesIdle
    /\ ManagerUnconstructed

NextLifecycle ==
    \/ Construct
    \/ PreferenceChange
    \/ PageAnimate
    \/ AnimationStep
    \/ DisposeRequest
    \/ Scroll

SpecLifecycle == InitLifecycle /\ [][NextLifecycle]_vars

NextAnimateFair == AnimatePositive \/ FrameDelivered

\* a requested frame is delivered in the end
SpecAnimateFair ==
    InitAnimate /\ [][NextAnimateFair]_vars /\ WF_anSteps(FrameDue)

\* any time of the grid, any start, distance and duration
InitEase ==
    /\ now = 0
    /\ esT \in EaseGrid
    /\ esB \in EaseStarts
    /\ esC \in EaseDistances
    /\ esD \in EaseDurations
    /\ EaseInit
    /\ ThrottleIdle
    /\ DebounceIdle
    /\ ManagerIdle
    /\ AnimateIdle
    /\ LifecycleIdle
    /\ OverlapIdle
    /\ DomIdle

NextEase == EaseApply

SpecEase == InitEase /\ [][NextEase]_vars

InitOverlap ==
    /\ now = 0
    /\ ovProp \in Props
    /\ OverlapInit
    /\ ThrottleIdle
    /\ DebounceIdle
    /\ ManagerIdle
    /\ AnimateIdle
    /\ LifecycleIdle
    /\ EaseIdle
    /\ DomIdle

NextOverlap == FirstCall \/ SecondCall \/ OverlapFrame

InitDom ==
    /\ now = 0
    /\ SmoothScrollInit
    /\ ListenerInit
    /\ ThrottleIdle
    /\ DebounceIdle
    /\ ManagerIdle
    /\ AnimateIdle
    /\ LifecycleIdle
    /\ EaseIdle
    /\ OverlapIdle

NextSmoothScroll == SmoothScrollTo \/ SmoothScrollFrame

SpecSmoothScroll == InitDom /\ [][NextSmoothScroll]_vars

NextListeners == AddEventListenerSafe \/ RemoveEventListnerSafe

SpecListeners == InitDom /\ [][NextListeners]_vars

SpecOverlap == InitOverlap /\ [][NextOverlap]_vars

-----------------------------------------------------------------------------
(* Claims about throttle (SpecThrottle) *)

\* C1: a call of the throttled wrapper made once the cooldown of the latest
\* execution is over (limit ms elapsed, its timer fired) executes func again.
C1_ThrottleReopens == thLastCall.cooled => thLastCall.ran

\* C2: func runs at most once in any window of limit ms, and 10 calls at
\* 10 ms intervals with limit = 100 run func exactly once, at the first call.
C2_ThrottleBound ==
    /\ \A i, j \in 1..Len(thExecTimes) :
         i < j => thExecTimes[j] - thExecTimes[i] >= thLimit
    /\ (thRegular /\ thCalls = 10 /\ thLimit = 100) => thExecTimes = <<0>>

\* the ten calls at t = 0, 10, ..., 90 have been made with limit = 100
C2_Witness == thRegular /\ thCalls = 10 /\ thLimit = 100 /\ now = 90

\* C24: func runs only inside a call of the wrapper, at the time of that
\* call, never when the timer fires; after a call dropped in the cooldown
\* no run of func follows unless another call is made, however long the
\* wait.
C24_LeadingEdgeOnly ==
    /\ [][thExecTimes' /= thExecTimes
            => /\ thCalls' = thCalls + 1
               /\ thExecTimes' = Append(thExecTimes, now)]_vars
    /\ [](\A i \in 1..Len(thExecTimes) :
            (thLastCall.t >= 0 /\ ~thLastCall.ran) => thExecTimes[i] <= thLastCall.t)

\* the latest call was dropped, its cooldown timer has fired and more than
\* limit ms have passed since: func has not run for it
C24_Witness ==
    /\ thLastCall.t > 0
    /\ ~thLastCall.ran
    /\ thTimers = {}
    /\ now >= thLastCall.t + thLimit
    /\ Len(thExecTimes) < thCalls
    /\ Last(thExecTimes) < thLastCall.t

-----------------------------------------------------------------------------
(* Claims about debounce (SpecDebounce) *)

\* C3: with immediate = false func runs only from the timer, exactly wait ms
\* after the latest call and with that call's arguments, once for each burst
\* of calls, and never while a call of the burst is less than wait ms old;
\* calls at t = 0, 50, 100 with wait = 200 give one run, at t = 300.
C3_DebounceTrailing ==
    ~dbImmediate =>
      /\ dbExecCount > 0 =>
           /\ dbLastExec.src = "timer"
           /\ dbLastExec.t = dbLastExec.callT + dbWait
           /\ dbLastExec.arg = dbLastExec.callArg
           /\ dbLastExec.since >= 1
      /\ dbTimers = {} => dbSince = 0
      /\ dbTimers /= {} =>
           /\ dbSince >= 1
           /\ \A tm \in dbTimers : tm.due = dbLastCall.t + dbWait /\ tm.arg = dbLastCall.arg
           /\ Cardinality(dbTimers) = 1
      /\ (dbScen = 3 /\ dbCalls = 3 /\ dbWait = 200) =>
           IF dbTimers /= {}
             THEN dbExecCount = 0 /\ now <= 300
             ELSE dbExecCount = 1 /\ dbLastExec.t = 300 /\ dbLastExec.arg = dbLastCall.arg

\* the burst 0, 50, 100 with wait = 200 has been run to its execution
C3_Witness ==
    /\ ~dbImmediate /\ dbWait = 200
    /\ dbScen = 3 /\ dbCalls = 3
    /\ dbExecCount = 1 /\ dbLastExec.since = 3 /\ now = 300

\* C4: with immediate = true a call runs func exactly when no timer is
\* pending at the call, func never runs from the timer, and once the timer
\* has fired the wrapper is idle again.
C4_DebounceLeading ==
    dbImmediate =>
      /\ dbCalls > 0 => (dbLastCall.ran <=> dbLastCall.idle)
      /\ dbExecCount > 0 => dbLastExec.src = "call" /\ dbLastExec.t = dbLastExec.callT
      /\ (dbCalls > 0 /\ dbTimers = {}) => ~Truthy(dbTimeout)

\* func ran at a first call, later calls were suppressed, the timer fired
\* and the next call ran func again
C4_Witness ==
    /\ dbImmediate
    /\ dbExecCount = 2 /\ dbLastExec.since >= 2
    /\ dbLastCall.ran /\ dbLastCall.t = dbLastExec.t

-----------------------------------------------------------------------------
(* Claims about the observer callback (SpecManager) *)

C6_IntersectingAnimates ==
    \A i \in 1..Len(cbEntries) :
      (cbEntries[i].isIntersecting /\ cbEntries[i].target \notin cbPrev.animated) =>
        /\ mgrInvoked[cbEntries[i].target] = cbPrev.invoked[cbEntries[i].target] + 1
        /\ cbEntries[i].target \in animatedElements

-----------------------------------------------------------------------------
(* Claims about animate (SpecAnimate) *)

\* C7: called with a present element while prefersReducedMotion() is true,
\* animate assigns every property its target as given, resolves the promise
\* and requests no frame.
C7_ReducedMotionShortCircuit ==
    (anPc /= "idle" /\ anElement = "el" /\ anReduced) =>
      /\ anPc = "done"
      /\ anResolved = 1
      /\ anScheduled = 0 /\ anPending = 0 /\ anSteps = 0
      /\ DOMAIN anStyle = DOMAIN anProps
      /\ \A p \in DOMAIN anProps : anStyle[p] = RawStyle(anProps[p])

\* a reduced-motion call with two properties has returned
C7_Witness ==
    /\ anPc = "done" /\ anElement = "el" /\ anReduced
    /\ DOMAIN anProps = Props

\* C8: when the promise of a call with a positive duration and reduced
\* motion off resolves, every animated property holds exactly its target.
C8_EndValueExact ==
    (anPc = "done" /\ anElement = "el" /\ ~anReduced /\ anDuration > 0) =>
      \A p \in DOMAIN anProps : anStyle[p] = TargetStyle(p, anProps[p])

\* C9: with a zero or negative duration (reduced motion off) the first frame
\* callback computes progress = 1, writes the targets, resolves the promise
\* and requests no further frame.
C9_NonPositiveDurationCompletes ==
    (anElement = "el" /\ ~anReduced /\ anDuration <= 0 /\ anSteps >= 1) =>
      /\ anSteps = 1
      /\ anProgress = One
      /\ anPc = "done" /\ anResolved = 1
      /\ anPending = 0
      /\ \A p \in DOMAIN anProps : anStyle[p] = TargetStyle(p, anProps[p])

\* C10: with frames at non-decreasing timestamps every progress computed by
\* animationStep lies in [0,1] and is not below the one computed before it.
C10_ProgressMonotone ==
    anSteps >= 1 =>
      /\ Leq(Zero, anProgress) /\ Leq(anProgress, One)
      /\ anSteps >= 2 => Leq(anPrevProgress, anProgress)

\* C11: animate called with an absent element is a no-op: it writes nothing,
\* schedules no frame, and its promise is not rejected.
C11_AbsentElementNoOp ==
    (anPc /= "idle" /\ anElement = "null")
        => (anPc /= "rejected" /\ anStyle = EmptyMap /\ anScheduled = 0)

\* C21: a call has at most one frame callback pending, and one exactly
\* while it runs; every delivered frame runs one interpolation step, at a
\* timestamp not before the previous step's, and no step runs once the
\* call has completed.
C21_OneStepPerFrame ==
    /\ [](anPending <= 1)
    /\ [](anPending = 1 <=> anPc = "running")
    /\ [][anSteps' /= anSteps
            => /\ anPc = "running"
               /\ anSteps' = anSteps + 1
               /\ anClock' >= anClock
               /\ anPending' <= 1]_vars
    /\ [][anPc = "done" => anSteps' = anSteps /\ anStyle' = anStyle]_vars

\* a call that completed on its third frame, nothing pending
C21_Witness ==
    /\ anPc = "done"
    /\ ~anReduced
    /\ anSteps = 3
    /\ anPending = 0
    /\ anScheduled = 3

-----------------------------------------------------------------------------
(* Claims about the life of the AnimationManager (SpecLifecycle) *)

C13_ReducedMotionDisabled ==
    (mgrPc /= "none" /\ initReduced = JsBool(TRUE))
        => /\ mgrPc = "constructed"
           /\ finalApplied
           /\ observer = "null"
           /\ mgrRan = <<>>

\* C14: constructed while prefersReducedMotion() is false, the manager is
\* Active: the three setup steps have run to completion, in order, and no
\* exception aborted the sequence.
C14_ActiveSetupCompletes ==
    (mgrPc /= "none" /\ initReduced = JsBool(FALSE))
        => /\ mgrPc = "constructed"
           /\ mgrRan = <<"setupIntersectionObserver", "setupScrollAnimations",
                         "setupCounterAnimations">>

\* C15: on a host without IntersectionObserver the construction does not
\* throw and ends as Disabled: final state applied, no observer.
C15_NoObserverFallsBack ==
    (mgrPc /= "none" /\ ~hostHasIO)
        => /\ mgrPc = "constructed"
           /\ finalApplied
           /\ observer = "null"

\* C16: once dispose() has been called no frame callback runs and no request
\* schedules a frame any more.
C16_DisposeStopsWork ==
    [][disposeRequested => (anSteps' = anSteps /\ anScheduled' = anScheduled)]_vars

\* C17: with the manager Active and the offsets 0, 50, 150, 200, 90 delivered,
\* the class is applied exactly while the latest offset is above 100, and the
\* state changes twice: on at 150 and off at 90.
C17_ScrollEdgeTrigger ==
    (initReduced = JsBool(FALSE) /\ scrollIdx > 0)
        => /\ navScrolled = (ScrollSamples[scrollIdx] > 100)
           /\ scrollTransitions = (CASE scrollIdx < 3 -> 0
                                     [] scrollIdx \in {3, 4} -> 1
                                     [] OTHER -> 2)

-----------------------------------------------------------------------------
(* Claims about smoothScrollTo's easing (SpecEase) *)

\* C18: with b = 0, c = 1, d = 1 ease maps 0 to 0, 1/2 to 1/2 and 1 to 1, and
\* returns what the reference quadInOut returns at every time of the grid.
C18_EaseQuadInOut ==
    (esDone /\ esB = 0 /\ esC = 1 /\ esD = 1)
        => /\ esOut = QuadInOut(esT)
           /\ esT = Zero => esOut = Zero
           /\ esT = Rat(1, 2) => esOut = Rat(1, 2)
           /\ esT = One => esOut = One

\* ease(0.5, 0, 1, 1) has returned 0.5
C18_Witness ==
    /\ esDone
    /\ esB = 0 /\ esC = 1 /\ esD = 1
    /\ esT = Rat(1, 2)
    /\ esOut = Rat(1, 2)

-----------------------------------------------------------------------------
(* Claims about animate with frames that keep coming (SpecAnimateFair) *)

\* C19: a call with a positive duration and reduced motion off, whose frames
\* keep being delivered with strictly increasing timestamps, is resolved in
\* the end, never more than once, and once resolved has no frame pending
\* and requests none.
C19_EventuallyResolvedOnce ==
    /\ (anPc = "running") ~> (anPc = "done")
    /\ [](anResolved <= 1)
    /\ [](anPc = "done" => (anResolved = 1 /\ anPending = 0))
    /\ [][anPc = "done" => anScheduled' = anScheduled]_vars

\* a call resolved on its third frame or later
C19_Witness ==
    /\ anPc = "done"
    /\ anDuration > 0
    /\ ~anReduced
    /\ anSteps >= 3
    /\ anResolved = 1
    /\ anPending = 0

-----------------------------------------------------------------------------
(* Claims about overlapping animate calls (SpecOverlap) *)

BothDone == \A i \in Tasks : ovTask[i].pc = "done"

\* occurrences of call i in the queue of requested callbacks
Queued(i) == Cardinality({k \in 1..Len(ovQueue) : ovQueue[k] = i})

-----------------------------------------------------------------------------
(* Claims about smoothScrollTo (SpecSmoothScroll) *)

\* C22: smoothScrollTo with a present target requests no frame after the
\* first frame whose elapsed time is at least duration, and the position
\* that frame sets is element.offsetTop - offset, however late it arrives.
C22_ScrollEndsAtTarget ==
    /\ ssPc = "running" => (ssPending = 1 /\ ssElapsed < ssDuration)
    /\ ssPc = "done"
         => /\ ssPending = 0
            /\ ssElapsed >= ssDuration
            /\ ssScrollY = FromInt(ssTargetPosition)

-----------------------------------------------------------------------------
(* Claims about the safe listener functions (SpecListeners) *)

\* C23: a handler attached with addEventListenerSafe is not attached any
\* more after removeEventListnerSafe for it; neither function throws, and
\* with an absent element either changes nothing.
C23_RemoveDetaches ==
    /\ ~lsThrew
    /\ lsLast.element = "null" => (lsAttached = lsLast.before /\ lsErrors = 0)
    /\ (lsLast.op = "remove" /\ lsLast.element = "el" /\ lsLast.handler \in lsLast.before)
         => lsLast.handler \notin lsAttached

====
